---- MODULE Spec2Model ----
(***************************************************************************)
(* Model of app.py: the /process_metadata/ handler, which parses an        *)
(* uploaded YAML document, validates it against the Metadata schema and    *)
(* replays it as ten dependent POSTs through send_post_request.            *)
(*                                                                         *)
(* Text is modelled as TLA+ strings joined with \o; a message (str(e), a   *)
(* detail) is the sequence of the pieces that the code formats into it.    *)
(* The text of username and password is a sequence of latin-1 codes, so    *)
(* that the Basic-auth encoding can be computed.                           *)
(***************************************************************************)
EXTENDS Integers, Sequences, FiniteSets, TLC

VARIABLES file, pc, headers, auth, responses, posts, answers, remote, exc, result

vars == <<file, pc, headers, auth, responses, posts, answers, remote, exc, result>>

(***************************************************************************)
(* Bounds of the model.                                                    *)
(***************************************************************************)
\* How many distinct ids the upstream hands out.
NumIds == 2

\* The executions of the handler: one per upload.
Execs == {1, 2}

\* The number of POSTs of the pipeline (app.py lines 68-77).
NumSteps == 10

(***************************************************************************)
(* Base64 and HTTP Basic auth, as requests.auth computes them.             *)
(***************************************************************************)
B64Chars ==
  <<"A","B","C","D","E","F","G","H","I","J","K","L","M","N","O","P",
    "Q","R","S","T","U","V","W","X","Y","Z","a","b","c","d","e","f",
    "g","h","i","j","k","l","m","n","o","p","q","r","s","t","u","v",
    "w","x","y","z","0","1","2","3","4","5","6","7","8","9","+","/">>

B64Char(n) == B64Chars[n + 1]

RECURSIVE B64Encode(_)
B64Encode(bytes) ==
  IF Len(bytes) = 0 THEN ""
  ELSE IF Len(bytes) = 1 THEN
    LET n == bytes[1] * 16
    IN  B64Char(n \div 64) \o B64Char(n % 64) \o "=="
  ELSE IF Len(bytes) = 2 THEN
    LET n == (bytes[1] * 256 + bytes[2]) * 4
    IN  B64Char(n \div 4096) \o B64Char((n \div 64) % 64) \o B64Char(n % 64) \o "="
  ELSE
    LET n == bytes[1] * 65536 + bytes[2] * 256 + bytes[3]
    IN  B64Char(n \div 262144) \o B64Char((n \div 4096) % 64)
          \o B64Char((n \div 64) % 64) \o B64Char(n % 64)
          \o B64Encode(SubSeq(bytes, 4, Len(bytes)))

\* requests.auth._basic_auth_str: "Basic " + b64encode(username + b":" + password).
Colon == <<58>>

BasicAuthStr(a) == "Basic " \o B64Encode(a.username \o Colon \o a.password)

(***************************************************************************)
(* The uploaded file and the Metadata schema.                              *)
(***************************************************************************)
\* A parsed YAML value is tagged with its type: t is "str", "dict", "list" or "null".
Str(s) == [t |-> "str", v |-> s]

Dict(d) == [t |-> "dict", v |-> d]

YamlList == [t |-> "list", v |-> <<>>]

YamlNull == [t |-> "null", v |-> <<>>]

\* The ten payload blocks of Metadata, in the order of the POSTs that carry them.
Blocks ==
  <<"catalog", "representation", "offer", "resource_catalog", "representation_resource",
    "contract", "rule", "rule_contract", "artifact", "artifact_representation">>

BlockNames == {Blocks[k] : k \in 1..NumSteps}

\* The fields of class Metadata; all of them are required.
MetadataFields == {"base_url", "auth"} \cup BlockNames

\* AuthDetails: username and password are required str, auth_string is Optional[str].
AuthDetailsValid(a) ==
  /\ a.t = "dict"
  /\ "username" \in DOMAIN a.v /\ a.v["username"].t = "str"
  /\ "password" \in DOMAIN a.v /\ a.v["password"].t = "str"
  /\ "auth_string" \in DOMAIN a.v => a.v["auth_string"].t \in {"str", "null"}

\* Mutant of MetadataValid: the payload blocks are declared Any, so their type goes unchecked.
MetadataValid_BlocksUntyped(f) ==
  /\ f.kind = "mapping"
  /\ \A name \in MetadataFields : name \in DOMAIN f.doc
  /\ f.doc["base_url"].t = "str"
  /\ AuthDetailsValid(f.doc["auth"])

\* Metadata(**metadata) succeeds: metadata is a mapping holding every field with its type.
MetadataValid(f) ==
  /\ f.kind = "mapping"
  /\ \A name \in MetadataFields : name \in DOMAIN f.doc
  /\ f.doc["base_url"].t = "str"
  /\ AuthDetailsValid(f.doc["auth"])
  /\ \A b \in BlockNames : f.doc[b].t = "dict"

\* metadata_model.auth.auth_string: the field's default is None.
AuthStringOf(f) ==
  LET a == f.doc["auth"].v
  IN  IF "auth_string" \in DOMAIN a THEN a["auth_string"] ELSE YamlNull

\* f'{x}' of an Optional[str]: str(None) is "None".
FormatOptStr(x) == IF x.t = "null" THEN "None" ELSE x.v

(***************************************************************************)
(* The uploads the model draws from.                                       *)
(***************************************************************************)
TextTest == <<116, 101, 115, 116>>

TextU == <<117>>

TextP == <<112>>

\* The payload block named b of document n: an opaque mapping.
Payload(b, n) == Dict([block |-> b, of |-> n])

AuthMapping(user, pass) == ("username" :> Str(user)) @@ ("password" :> Str(pass))

WithAuthString(a, s) == a @@ ("auth_string" :> s)

Document(n, url, a) ==
  [name \in MetadataFields |->
     IF name = "base_url" THEN Str(url)
     ELSE IF name = "auth" THEN Dict(a)
     ELSE Payload(name, n)]

Mapping(d) == [kind |-> "mapping", doc |-> d]

\* Document 1: the auth_string of the spec's scenario, which is base64("test:test").
Doc1 ==
  Document(1, "https://x.test", WithAuthString(AuthMapping(TextTest, TextTest), Str("dGVzdDp0ZXN0")))

\* Document 2: the same auth_string with other credentials.
Doc2 ==
  Document(2, "https://x.test", WithAuthString(AuthMapping(TextU, TextP), Str("dGVzdDp0ZXN0")))

\* Document 3: no auth_string, and a base_url that ends in a slash.
Doc3 == Document(3, "https://y.test/", AuthMapping(TextU, TextP))

ValidFiles == {Mapping(Doc1), Mapping(Doc2), Mapping(Doc3)}

\* A value of the wrong type for a field: a sequence where text is expected, text
\* where a mapping is expected.
Mistyped(name) == IF name = "base_url" THEN YamlList ELSE Str("oops")

Without(d, name) == [n \in DOMAIN d \ {name} |-> d[n]]

Replace(d, name, val) == [n \in DOMAIN d |-> IF n = name THEN val ELSE d[n]]

InvalidFiles ==
  {[kind |-> "yaml_error", doc |-> <<>>], [kind |-> "list", doc |-> <<>>],
   [kind |-> "null", doc |-> <<>>]}
  \cup {Mapping(Without(Doc1, name)) : name \in MetadataFields}
  \cup {Mapping(Replace(Doc1, name, Mistyped(name))) : name \in MetadataFields}
  \cup {Mapping(Replace(Doc1, "auth", Dict(Without(Doc1["auth"].v, name)))) :
          name \in {"username", "password"}}
  \cup {Mapping(Replace(Doc1, "auth", Dict(Replace(Doc1["auth"].v, name, YamlList)))) :
          name \in {"username", "password", "auth_string"}}

Files == ValidFiles \cup InvalidFiles

NoFile == [kind |-> "none", doc |-> <<>>]

(***************************************************************************)
(* send_post_request and the ten steps of process_metadata.                *)
(***************************************************************************)
\* The fixed part of each step's endpoint, before and after the threaded id.
PathHead ==
  <<"/api/catalogs", "/api/representations", "/api/offers", "/api/catalogs/", "/api/offers/",
    "/api/contracts", "/api/rules", "/api/contracts/", "/api/artifacts", "/api/representations/">>

PathTail == <<"", "", "", "/offers", "/representations", "", "", "/rules", "", "/artifacts">>

\* Mutant of IdSource: step 5 formats catalog_response['id'] instead of offer_response['id'].
IdSource_CatalogForOffer(k) ==
  CASE k = 4 -> 1
    [] k = 5 -> 1
    [] k = 8 -> 6
    [] k = 10 -> 2
    [] OTHER -> 0

\* The earlier step whose response's id is formatted into step k's endpoint; 0 when none.
IdSource(k) ==
  CASE k = 4 -> 1
    [] k = 5 -> 3
    [] k = 8 -> 6
    [] k = 10 -> 2
    [] OTHER -> 0

\* Mutant of LacksId: each response that a later step reads is checked for its id as
\* soon as it has arrived.
LacksId_Eager(k, resps) == \E j \in {1, 2, 3, 6} : j < k /\ "id" \notin DOMAIN resps[j]

\* Evaluating step k's endpoint raises KeyError when the response it reads has no id.
LacksId(k, resps) == IdSource(k) # 0 /\ "id" \notin DOMAIN resps[IdSource(k)]

Endpoint(k, resps) ==
  IF IdSource(k) = 0 THEN PathHead[k]
  ELSE PathHead[k] \o resps[IdSource(k)]["id"] \o PathTail[k]

\* Mutant of StepData: step 7 is given metadata_model.contract instead of metadata_model.rule.
StepData_ContractForRule(k, f) == f.doc[Blocks[IF k = 7 THEN 6 ELSE k]].v

\* The payload block that step k carries.
StepData(k, f) == f.doc[Blocks[k]].v

\* Mutant of BuildHeaders: without an auth_string the header is computed from the
\* username and password.
BuildHeaders_FromCredentials(f) ==
  ("Content-Type" :> "application/json")
    @@ ("Authorization" :>
          IF AuthStringOf(f).t = "null"
          THEN "Basic " \o B64Encode(f.doc["auth"].v["username"].v \o Colon
                                       \o f.doc["auth"].v["password"].v)
          ELSE "Basic " \o AuthStringOf(f).v)
    @@ ("base_url" :> f.doc["base_url"].v)

\* Lines 58-65: the headers mapping and the credentials object of one execution.
BuildHeaders(f) ==
  ("Content-Type" :> "application/json")
    @@ ("Authorization" :> "Basic " \o FormatOptStr(AuthStringOf(f)))
    @@ ("base_url" :> f.doc["base_url"].v)

BuildAuth(f) ==
  [username |-> f.doc["auth"].v["username"].v, password |-> f.doc["auth"].v["password"].v]

\* Mutant of Url: the slash that ends base_url is dropped before the endpoint is added.
Url_SlashDeduplicated(h, endpoint) ==
  (IF h["base_url"] = "https://y.test/" THEN "https://y.test" ELSE h["base_url"]) \o endpoint

\* Line 37: the url is the base_url header followed by the endpoint.
Url(h, endpoint) == h["base_url"] \o endpoint

\* Mutant of PreparedHeaders: base_url is taken out of the mapping before it is sent.
PreparedHeaders_WithoutBaseUrl(h, a) ==
  [name \in (DOMAIN h \cup {"Authorization"}) \ {"base_url"} |->
     IF name = "Authorization" THEN BasicAuthStr(a) ELSE h[name]]

\* requests.post(url, json=data, headers=headers, auth=auth): the request that is
\* sent has the given headers, and the auth object then sets Authorization.
PreparedHeaders(h, a) ==
  [name \in DOMAIN h \cup {"Authorization"} |->
     IF name = "Authorization" THEN BasicAuthStr(a) ELSE h[name]]

\* One call of send_post_request: its arguments and the request that goes out.
SendPost(endpoint, data, h, a) ==
  [endpoint |-> endpoint, data |-> data, headers |-> h, auth |-> a,
   request |-> [method |-> "POST", url |-> Url(h, endpoint), json |-> data,
                headers |-> PreparedHeaders(h, a)]]

\* The call that step k makes.
StepCall(k, f, h, a, resps) == SendPost(Endpoint(k, resps), StepData(k, f), h, a)

(***************************************************************************)
(* What the upstream answers.                                              *)
(***************************************************************************)
IdOf(i) == "id" \o ToString(i)

Ids == {IdOf(i) : i \in 1..NumIds}

NoIdBody == [name |-> "n"]

Bodies == {[id |-> i] : i \in Ids} \cup {NoIdBody}

\* The bodies the upstream is taken to answer step k with: every body at the steps
\* whose id is threaded into a later endpoint, two of them at the others.
BodiesAt(k) ==
  IF k \in {1, 2, 3, 6} THEN Bodies ELSE {[id |-> IdOf(1)], NoIdBody}

NoBody == <<>>

OkAnswers(k) == {[kind |-> "ok", status |-> 201, body |-> b] : b \in BodiesAt(k)}

\* A 4xx or 5xx status; no response at all; a success status with a body that is not JSON.
FailAnswers ==
  {[kind |-> "status", status |-> s, body |-> NoBody] : s \in {404, 500}}
  \cup {[kind |-> "transport", status |-> 0, body |-> NoBody],
        [kind |-> "badjson", status |-> 200, body |-> NoBody]}

\* The upstream has accepted a request when it answers it with a success status.
Accepted(ans) == ans.kind \in {"ok", "badjson"}

(***************************************************************************)
(* Exceptions and what the client gets.                                    *)
(***************************************************************************)
NoExc == [type |-> "none", status_code |-> 0, detail |-> <<>>, str |-> <<>>]

PlainExc(type, text) == [type |-> type, status_code |-> 0, detail |-> <<>>, str |-> text]

\* fastapi.HTTPException; str(e) is "<status_code>: <detail>".
HTTPException(status_code, detail) ==
  [type |-> "HTTPException", status_code |-> status_code, detail |-> detail,
   str |-> <<ToString(status_code), ": ">> \o detail]

\* Mutant of HTTPErrorStr: the message is built from the status alone.
HTTPErrorStr_NoUrl(status, url) ==
  <<ToString(status), IF status < 500 THEN " Client Error" ELSE " Server Error">>

\* str() of the HTTPError that raise_for_status raises.
HTTPErrorStr(status, url) ==
  <<ToString(status), IF status < 500 THEN " Client Error: " ELSE " Server Error: ",
    IF status = 404 THEN "Not Found" ELSE "Internal Server Error", " for url: ", url>>

\* Lines 41-46: the exception that leaves send_post_request for a failed answer.
\* With no response the handler's own read of response.status_code fails.
PostFailure(ans, url) ==
  CASE ans.kind = "status" -> HTTPException(ans.status, HTTPErrorStr(ans.status, url))
    [] ans.kind = "badjson" ->
         HTTPException(ans.status, <<"Expecting value: line 1 column 1 (char 0)">>)
    [] OTHER ->
         PlainExc("UnboundLocalError",
                  <<"cannot access local variable 'response' where it is not associated with a value">>)

\* The exception of a file that cannot be loaded into Metadata (lines 52-55).
LoadFailure(f) ==
  CASE f.kind = "yaml_error" -> PlainExc("YAMLError", <<"while scanning">>)
    [] f.kind \in {"list", "null"} ->
         PlainExc("TypeError", <<"argument after ** must be a mapping, not ", f.kind>>)
    [] OTHER -> PlainExc("ValidationError", <<"validation error for Metadata">>)

KeyErrorId == PlainExc("KeyError", <<"'id'">>)

NoResult == [status_code |-> 0, body |-> <<>>, detail |-> <<>>]

\* Mutant of ClientError: an HTTPException is re-raised with its own status code.
ClientError_Reraising(e) ==
  [status_code |-> IF e.type = "HTTPException" THEN e.status_code ELSE 400,
   body |-> <<>>, detail |-> <<"Failed to process metadata: ">> \o e.str]

\* Lines 93-95: every exception becomes status 400.
ClientError(e) ==
  [status_code |-> 400, body |-> <<>>, detail |-> <<"Failed to process metadata: ">> \o e.str]

ResponseKeys ==
  <<"catalog_response", "representation_response", "offer_response",
    "resource_catalog_response", "representation_resource_response", "contract_response",
    "rule_response", "rule_contract_response", "artifact_response",
    "artifact_representation_response">>

\* Mutant of ReturnedLocal: the first two keys read each other's local.
ReturnedLocal_Swapped(k) == IF k = 1 THEN 2 ELSE IF k = 2 THEN 1 ELSE k

\* The local variable that the key numbered k of the returned mapping reads.
ReturnedLocal(k) == k

\* Lines 80-91: the returned mapping.
Compile(resps) ==
  [key \in {ResponseKeys[k] : k \in 1..NumSteps} |->
     resps[ReturnedLocal(CHOOSE k \in 1..NumSteps : ResponseKeys[k] = key)]]

Success(resps) == [status_code |-> 200, body |-> Compile(resps), detail |-> <<>>]

(***************************************************************************)
(* The state machine.  Each execution e of process_metadata has            *)
(*   file[e]       the uploaded file                                       *)
(*   pc[e]         "Idle" (no upload), "Start", "InFlight" (blocked in     *)
(*                 requests.post), "Success" or "Failed"                   *)
(*   headers[e], auth[e]   the locals of lines 59-65                       *)
(*   responses[e]  the locals catalog_response ... in assignment order     *)
(*   exc[e]        the exception caught at line 93                         *)
(*   result[e]     the HTTP response given to the client                   *)
(* and, as history of the network,                                         *)
(*   posts[e]      the calls of send_post_request, in order                *)
(*   answers[e]    what the upstream answered to each                      *)
(*   remote[e]     the requests that the upstream accepted                 *)
(***************************************************************************)
NoHeaders == <<>>

NoAuth == [username |-> <<>>, password |-> <<>>]

\* Mutant of HeadersOf: headers is a module-level name that execution 1 rebinds.
HeadersOf_ModuleLevel(e) == IF headers[1] # NoHeaders THEN headers[1] ELSE headers[e]

\* The headers and auth that execution e passes to send_post_request: its own locals.
HeadersOf(e) == headers[e]

AuthOf(e) == auth[e]

\* Mutant of ExceptRequests: the failed request is sent once more.
ExceptRequests_Retrying(sent) == Append(sent, sent[Len(sent)])

\* Mutant of ExceptRequests: the except block deletes the resource created last.
ExceptRequests_Compensating(sent) ==
  IF Len(sent) < 2 THEN sent
  ELSE Append(sent, [sent[Len(sent) - 1] EXCEPT !.request.method = "DELETE"])

\* Lines 93-95: the requests issued once the except block has run; it issues none.
ExceptRequests(sent) == sent

\* The number of the step that is in flight, or is to be issued next.
StepNo(e) == Len(responses[e]) + 1

\* Mutant of RunOn: the handler yields between the steps, and a cancellation that
\* arrives after step 5 ends it there.
RunOn_Cancellable(e, h, a, resps) ==
  LET k == Len(resps) + 1
  IN  IF k > NumSteps THEN
        /\ pc' = [pc EXCEPT ![e] = "Success"]
        /\ result' = [result EXCEPT ![e] = Success(resps)]
        /\ UNCHANGED <<posts, exc>>
      ELSE IF k = 6 THEN
        /\ pc' = [pc EXCEPT ![e] = "Cancelled"]
        /\ UNCHANGED <<posts, exc, result>>
      ELSE IF LacksId(k, resps) THEN
        /\ pc' = [pc EXCEPT ![e] = "Failed"]
        /\ exc' = [exc EXCEPT ![e] = KeyErrorId]
        /\ result' = [result EXCEPT ![e] = ClientError(KeyErrorId)]
        /\ UNCHANGED posts
      ELSE
        /\ pc' = [pc EXCEPT ![e] = "InFlight"]
        /\ posts' = [posts EXCEPT ![e] = Append(@, StepCall(k, file[e], h, a, resps))]
        /\ UNCHANGED <<exc, result>>

\* The code runs on from the locals resps to its next blocking point: it returns the
\* mapping, or fails to format the next endpoint, or has the next POST in flight.
RunOn(e, h, a, resps) ==
  LET k == Len(resps) + 1
  IN  IF k > NumSteps THEN
        /\ pc' = [pc EXCEPT ![e] = "Success"]
        /\ result' = [result EXCEPT ![e] = Success(resps)]
        /\ UNCHANGED <<posts, exc>>
      ELSE IF LacksId(k, resps) THEN
        /\ pc' = [pc EXCEPT ![e] = "Failed"]
        /\ exc' = [exc EXCEPT ![e] = KeyErrorId]
        /\ result' = [result EXCEPT ![e] = ClientError(KeyErrorId)]
        /\ UNCHANGED posts
      ELSE
        /\ pc' = [pc EXCEPT ![e] = "InFlight"]
        /\ posts' = [posts EXCEPT ![e] = Append(@, StepCall(k, file[e], h, a, resps))]
        /\ UNCHANGED <<exc, result>>

\* Lines 50-55 and 93-95: the file does not load into Metadata.
Reject(e) ==
  /\ pc[e] = "Start"
  /\ ~MetadataValid(file[e])
  /\ pc' = [pc EXCEPT ![e] = "Failed"]
  /\ exc' = [exc EXCEPT ![e] = LoadFailure(file[e])]
  /\ result' = [result EXCEPT ![e] = ClientError(LoadFailure(file[e]))]
  /\ UNCHANGED <<file, headers, auth, responses, posts, answers, remote>>

\* Mutant of Begin: an upload whose file another execution has completed is answered
\* with that execution's mapping, and nothing is POSTed again.
Begin_Cached(e) ==
  /\ pc[e] = "Start"
  /\ MetadataValid(file[e])
  /\ headers' = [headers EXCEPT ![e] = BuildHeaders(file[e])]
  /\ auth' = [auth EXCEPT ![e] = BuildAuth(file[e])]
  /\ IF \E d \in Execs \ {e} : file[d] = file[e] /\ pc[d] = "Success"
     THEN /\ pc' = [pc EXCEPT ![e] = "Success"]
          /\ result' = [result EXCEPT ![e] =
                          result[CHOOSE d \in Execs \ {e} : file[d] = file[e] /\ pc[d] = "Success"]]
          /\ UNCHANGED <<posts, exc>>
     ELSE RunOn(e, BuildHeaders(file[e]), BuildAuth(file[e]), responses[e])
  /\ UNCHANGED <<file, responses, answers, remote>>

\* Lines 50-68: the file loads, headers and auth are built, step 1 goes out.
Begin(e) ==
  /\ pc[e] = "Start"
  /\ MetadataValid(file[e])
  /\ headers' = [headers EXCEPT ![e] = BuildHeaders(file[e])]
  /\ auth' = [auth EXCEPT ![e] = BuildAuth(file[e])]
  /\ RunOn(e, BuildHeaders(file[e]), BuildAuth(file[e]), responses[e])
  /\ UNCHANGED <<file, responses, answers, remote>>

\* Lines 41-43, then the lines up to the next POST: the step in flight succeeds.
Succeed(e, ans) ==
  /\ pc[e] = "InFlight"
  /\ ans.kind = "ok"
  /\ answers' = [answers EXCEPT ![e] = Append(@, ans)]
  /\ remote' = [remote EXCEPT ![e] = Append(@, posts[e][StepNo(e)].request)]
  /\ responses' = [responses EXCEPT ![e] = Append(@, ans.body)]
  /\ RunOn(e, HeadersOf(e), AuthOf(e), Append(responses[e], ans.body))
  /\ UNCHANGED <<file, headers, auth>>

\* Lines 41-46 and 93-95: the step in flight fails.
Fail(e, ans) ==
  /\ pc[e] = "InFlight"
  /\ ans.kind # "ok"
  /\ answers' = [answers EXCEPT ![e] = Append(@, ans)]
  /\ remote' = [remote EXCEPT ![e] =
                  IF Accepted(ans) THEN Append(@, posts[e][StepNo(e)].request) ELSE @]
  /\ LET e1 == PostFailure(ans, posts[e][StepNo(e)].request.url)
     IN  /\ exc' = [exc EXCEPT ![e] = e1]
         /\ result' = [result EXCEPT ![e] = ClientError(e1)]
  /\ posts' = [posts EXCEPT ![e] = ExceptRequests(@)]
  /\ pc' = [pc EXCEPT ![e] = "Failed"]
  /\ UNCHANGED <<file, headers, auth, responses>>

\* The state of the executions once the uploads in files have arrived.
InitWith(files) ==
  /\ file = files
  /\ pc = [e \in Execs |-> IF files[e] = NoFile THEN "Idle" ELSE "Start"]
  /\ headers = [e \in Execs |-> NoHeaders]
  /\ auth = [e \in Execs |-> NoAuth]
  /\ responses = [e \in Execs |-> <<>>]
  /\ posts = [e \in Execs |-> <<>>]
  /\ answers = [e \in Execs |-> <<>>]
  /\ remote = [e \in Execs |-> <<>>]
  /\ exc = [e \in Execs |-> NoExc]
  /\ result = [e \in Execs |-> NoResult]

\* One upload, any file; the upstream answers as it likes.
Init == \E f \in Files : InitWith([e \in Execs |-> IF e = 1 THEN f ELSE NoFile])

Next ==
  \E e \in Execs :
    \/ Reject(e)
    \/ Begin(e)
    \/ \E ans \in OkAnswers(StepNo(e)) : Succeed(e, ans)
    \/ \E ans \in FailAnswers : Fail(e, ans)

Spec == Init /\ [][Next]_vars

\* Two uploads of different files, served concurrently.  The upstream answers
\* execution e with the id numbered e, or fails the step.
ConcFiles == ValidFiles \cup {Mapping(Without(Doc1, "auth"))}

ConcOkAnswers(e) == {[kind |-> "ok", status |-> 201, body |-> [id |-> IdOf(e)]]}

ConcFailAnswers ==
  {[kind |-> "status", status |-> 500, body |-> NoBody],
   [kind |-> "transport", status |-> 0, body |-> NoBody]}

InitConc ==
  \E f1 \in ConcFiles, f2 \in ConcFiles :
    /\ f1 # f2
    /\ InitWith([e \in Execs |-> IF e = 1 THEN f1 ELSE f2])

NextConc ==
  \E e \in Execs :
    \/ Reject(e)
    \/ Begin(e)
    \/ \E ans \in ConcOkAnswers(e) : Succeed(e, ans)
    \/ \E ans \in ConcFailAnswers : Fail(e, ans)

SpecConc == InitConc /\ [][NextConc]_vars

(***************************************************************************)
(* Notions shared by the properties below.                                 *)
(***************************************************************************)
Running == {e \in Execs : pc[e] # "Idle"}

\* The decoded body that the upstream returned for step k of execution e.
Decoded(e, k) == answers[e][k].body

\* All ten POSTs of execution e were answered with success.
AllTenSucceeded(e) ==
  Len(answers[e]) = 10 /\ \A k \in 1..10 : answers[e][k].kind = "ok"

\* Execution e failed in the POST of step n.
FailedInStep(e, n) ==
  pc[e] = "Failed" /\ Len(answers[e]) = n /\ n >= 1 /\ answers[e][n].kind # "ok"

\* The ten-step list: the path of step k, with the ids that the upstream returned
\* to execution e, and the payload block that step k carries.
ListPath(e, k) ==
  CASE k = 1 -> "/api/catalogs"
    [] k = 2 -> "/api/representations"
    [] k = 3 -> "/api/offers"
    [] k = 4 -> "/api/catalogs/" \o Decoded(e, 1)["id"] \o "/offers"
    [] k = 5 -> "/api/offers/" \o Decoded(e, 3)["id"] \o "/representations"
    [] k = 6 -> "/api/contracts"
    [] k = 7 -> "/api/rules"
    [] k = 8 -> "/api/contracts/" \o Decoded(e, 6)["id"] \o "/rules"
    [] k = 9 -> "/api/artifacts"
    [] OTHER -> "/api/representations/" \o Decoded(e, 2)["id"] \o "/artifacts"

ListBlock ==
  <<"catalog", "representation", "offer", "resource_catalog", "representation_resource",
    "contract", "rule", "rule_contract", "artifact", "artifact_representation">>

BaseUrlOf(e) == file[e].doc["base_url"].v

\* The text s is one of the pieces of the message msg.
Mentions(msg, s) == \E i \in 1..Len(msg) : msg[i] = s

(***************************************************************************)
(* C1: when all ten POSTs succeed, process_metadata returns a mapping with *)
(* exactly the ten keys catalog_response ... artifact_representation_      *)
(* response, and the value under the key of step k is the decoded body     *)
(* that step k's POST returned.                                            *)
(***************************************************************************)
C1_Keys ==
  <<"catalog_response", "representation_response", "offer_response",
    "resource_catalog_response", "representation_resource_response", "contract_response",
    "rule_response", "rule_contract_response", "artifact_response",
    "artifact_representation_response">>

C1_ReturnsTenResponses ==
  \A e \in Running :
    AllTenSucceeded(e) =>
      /\ pc[e] = "Success"
      /\ result[e].status_code = 200
      /\ DOMAIN result[e].body = {C1_Keys[k] : k \in 1..10}
      /\ Cardinality(DOMAIN result[e].body) = 10
      /\ \A k \in 1..10 : result[e].body[C1_Keys[k]] = Decoded(e, k)

C1_Witness ==
  \E e \in Running :
    /\ pc[e] = "Success"
    /\ Decoded(e, 1) # Decoded(e, 2)
    /\ Decoded(e, 3) # Decoded(e, 4)
    /\ Decoded(e, 9) # Decoded(e, 10)

(***************************************************************************)
(* C2: if step N is answered with a non-success HTTP status, the steps     *)
(* after N are never POSTed (exactly N POSTs were issued), and the client  *)
(* error that process_metadata returns names step N's url.                 *)
(***************************************************************************)
C2_StatusFailureStops ==
  \A e \in Running :
    \A n \in 1..Len(answers[e]) :
      answers[e][n].kind = "status" =>
        /\ pc[e] = "Failed"
        /\ Len(posts[e]) = n
        /\ result[e].status_code = 400
        /\ Mentions(result[e].detail, BaseUrlOf(e) \o ListPath(e, n))

C2_Witness ==
  \E e \in Running :
    /\ FailedInStep(e, 5)
    /\ answers[e][5].kind = "status"
    /\ Len(posts[e]) = 5

(***************************************************************************)
(* C3: the POSTs issued are a prefix of the ten-step list: the k-th is a   *)
(* POST to step k's path with step k's payload block unchanged, step k+1   *)
(* is issued only after steps 1..k were answered with success, and at most *)
(* one POST of an execution is in flight.                                  *)
(***************************************************************************)
C3_PrefixOfList ==
  \A e \in Running :
    /\ Len(posts[e]) <= 10
    /\ Len(posts[e]) - Len(answers[e]) \in {0, 1}
    /\ (pc[e] = "InFlight") = (Len(posts[e]) - Len(answers[e]) = 1)
    /\ \A k \in 1..Len(posts[e]) :
         /\ posts[e][k].request.method = "POST"
         /\ posts[e][k].request.url = BaseUrlOf(e) \o ListPath(e, k)
         /\ posts[e][k].request.json = file[e].doc[ListBlock[k]].v
         /\ \A j \in 1..(k - 1) : answers[e][j].kind = "ok"

C3_Witness ==
  \E e \in Running : Len(posts[e]) = 10 /\ pc[e] = "InFlight"

(***************************************************************************)
(* C4: a file that is not valid YAML, or is no mapping, or lacks a         *)
(* required field, or has a field of the wrong type, gets status 400 and   *)
(* no POST is issued.                                                      *)
(***************************************************************************)
C4_StrFields == {"base_url"}

C4_TypeOf(name) == IF name \in C4_StrFields THEN "str" ELSE "dict"

C4_Malformed(f) ==
  \/ f.kind = "yaml_error"
  \/ f.kind \in {"list", "null"}
  \/ /\ f.kind = "mapping"
     /\ \/ \E name \in {"base_url", "auth"} \cup {ListBlock[k] : k \in 1..10} :
             name \notin DOMAIN f.doc \/ f.doc[name].t # C4_TypeOf(name)
        \/ \E name \in {"username", "password"} :
             name \notin DOMAIN f.doc["auth"].v \/ f.doc["auth"].v[name].t # "str"
        \/ /\ "auth_string" \in DOMAIN f.doc["auth"].v
           /\ f.doc["auth"].v["auth_string"].t \notin {"str", "null"}

C4_MalformedRejected ==
  \A e \in Running :
    C4_Malformed(file[e]) =>
      /\ posts[e] = <<>>
      /\ pc[e] \in {"Start", "Failed"}
      /\ pc[e] = "Failed" => result[e].status_code = 400

C4_Witness ==
  \E e \in Running :
    /\ pc[e] = "Failed"
    /\ file[e].kind = "mapping"
    /\ "rule" \in DOMAIN file[e].doc
    /\ file[e].doc["rule"].t # "dict"
    /\ result[e].status_code = 400

(***************************************************************************)
(* C5: the id of step 1's response is formatted into step 4's path, that   *)
(* of step 3 into step 5's, that of step 6 into step 8's, that of step 2   *)
(* into step 10's, and into no other path.                                 *)
(***************************************************************************)
C5_Threads(e, k, j, head, tail) ==
  /\ "id" \in DOMAIN Decoded(e, j)
  /\ posts[e][k].endpoint = head \o Decoded(e, j)["id"] \o tail

C5_IdThreading ==
  \A e \in Running :
    \A k \in 1..Len(posts[e]) :
      /\ k = 4 => C5_Threads(e, 4, 1, "/api/catalogs/", "/offers")
      /\ k = 5 => C5_Threads(e, 5, 3, "/api/offers/", "/representations")
      /\ k = 8 => C5_Threads(e, 8, 6, "/api/contracts/", "/rules")
      /\ k = 10 => C5_Threads(e, 10, 2, "/api/representations/", "/artifacts")
      /\ k \notin {4, 5, 8, 10} =>
           posts[e][k].endpoint \in
             {"/api/catalogs", "/api/representations", "/api/offers", "/api/contracts",
              "/api/rules", "/api/artifacts"}

C5_Witness ==
  \E e \in Running :
    /\ Len(posts[e]) = 10
    /\ Decoded(e, 1)["id"] # Decoded(e, 2)["id"]
    /\ Decoded(e, 3)["id"] # Decoded(e, 6)["id"]
    /\ Decoded(e, 1)["id"] # Decoded(e, 3)["id"]

(***************************************************************************)
(* C6: an execution that does not complete all ten steps ends with status  *)
(* 400 whatever the failure, and the status code that send_post_request    *)
(* put into its own HTTPException is not the status the client gets.       *)
(***************************************************************************)
C6_AlwaysStatus400 ==
  \A e \in Running :
    /\ pc[e] = "Failed" => result[e].status_code = 400
    /\ pc[e] = "Success" => AllTenSucceeded(e)
    /\ result[e].status_code # 0 => pc[e] \in {"Success", "Failed"}
    /\ (Len(answers[e]) = Len(posts[e]) /\ ~AllTenSucceeded(e) /\ pc[e] # "Start") =>
         pc[e] = "Failed"

C6_Witness ==
  \E e \in Running :
    /\ pc[e] = "Failed"
    /\ exc[e].type = "HTTPException"
    /\ exc[e].status_code = 500
    /\ result[e].status_code = 400

(***************************************************************************)
(* C7: whichever way the POST of step N fails (non-success status, no      *)
(* response, undecodable body), send_post_request raises its               *)
(* HTTPException, which names step N's url and, when there is a response,  *)
(* has the upstream status code; and no later step is issued.              *)
(***************************************************************************)
C7_EveryFailureIsUpstreamError ==
  \A e \in Running :
    \A n \in 1..Len(answers[e]) :
      answers[e][n].kind # "ok" =>
        /\ Len(posts[e]) = n
        /\ exc[e].type = "HTTPException"
        /\ Mentions(exc[e].detail, posts[e][n].request.url)
        /\ answers[e][n].kind # "transport" => exc[e].status_code = answers[e][n].status

(***************************************************************************)
(* C8: when the document gives an auth_string s, every POST that goes out  *)
(* has the header Authorization: Basic s, whatever username and password   *)
(* are.                                                                    *)
(***************************************************************************)
C8_AuthStringOnTheWire ==
  \A e \in Running :
    \A k \in 1..Len(posts[e]) :
      ("auth_string" \in DOMAIN file[e].doc["auth"].v
         /\ file[e].doc["auth"].v["auth_string"].t = "str") =>
        posts[e][k].request.headers["Authorization"]
          = "Basic " \o file[e].doc["auth"].v["auth_string"].v

(***************************************************************************)
(* C9: no rollback.  Every request of the pipeline is a forward POST of    *)
(* the ten-step list, and none follows a failure.                          *)
(* As claimed: after a failure at step N the upstream holds exactly the    *)
(* requests of steps 1..N-1.                                               *)
(* As amended: it holds the requests it answered with a success status,    *)
(* which are those of steps 1..N-1, and step N's too when step N failed on *)
(* the undecodable body of a success-status response.                      *)
(***************************************************************************)
\* The step at which a failed execution stopped.
C9_FailedStep(e) == Len(responses[e]) + 1

C9_RequestsOf(e, m) == [k \in 1..m |-> posts[e][k].request]

C9_OnlyForwardPosts(e) ==
  /\ \A k \in 1..Len(posts[e]) :
       /\ posts[e][k].request.method = "POST"
       /\ posts[e][k].request.url = BaseUrlOf(e) \o ListPath(e, k)
  /\ pc[e] = "Failed" => Len(posts[e]) \in {C9_FailedStep(e) - 1, C9_FailedStep(e)}

C9_RemoteIsEarlierSteps ==
  \A e \in Running :
    /\ C9_OnlyForwardPosts(e)
    /\ pc[e] = "Failed" => remote[e] = C9_RequestsOf(e, C9_FailedStep(e) - 1)

C9_NoRollback ==
  \A e \in Running :
    /\ C9_OnlyForwardPosts(e)
    /\ pc[e] = "Failed" =>
         remote[e] =
           C9_RequestsOf(e, IF Len(answers[e]) = C9_FailedStep(e)
                                 /\ answers[e][C9_FailedStep(e)].kind = "badjson"
                              THEN C9_FailedStep(e)
                              ELSE C9_FailedStep(e) - 1)

C9_Witness ==
  \E e \in Running :
    /\ FailedInStep(e, 5)
    /\ answers[e][5].kind = "status"
    /\ Len(remote[e]) = 4
    /\ Len(posts[e]) = 5

(***************************************************************************)
(* C10: two concurrent executions share no mutable state.  Each POST of an *)
(* execution has that execution's base url, headers, credentials, payload  *)
(* and the ids of its own earlier responses; its result holds its own      *)
(* responses; it fails only for a cause of its own; and a step of one      *)
(* execution leaves the state of the other as it is.                       *)
(***************************************************************************)
C10_OwnAuthorization(e) ==
  LET a == file[e].doc["auth"].v
  IN  IF "auth_string" \in DOMAIN a /\ a["auth_string"].t = "str"
      THEN "Basic " \o a["auth_string"].v
      ELSE "Basic None"

C10_OwnState ==
  \A e \in Running :
    /\ \A k \in 1..Len(posts[e]) :
         /\ posts[e][k].request.url = BaseUrlOf(e) \o ListPath(e, k)
         /\ posts[e][k].request.json = file[e].doc[ListBlock[k]].v
         /\ posts[e][k].headers["base_url"] = BaseUrlOf(e)
         /\ posts[e][k].headers["Authorization"] = C10_OwnAuthorization(e)
         /\ posts[e][k].request.headers["base_url"] = BaseUrlOf(e)
         /\ posts[e][k].auth.username = file[e].doc["auth"].v["username"].v
         /\ posts[e][k].auth.password = file[e].doc["auth"].v["password"].v
    /\ AllTenSucceeded(e) =>
         /\ pc[e] = "Success"
         /\ \A k \in 1..10 : result[e].body[C1_Keys[k]] = Decoded(e, k)
    /\ pc[e] = "Failed" =>
         \/ C4_Malformed(file[e])
         \/ Len(answers[e]) >= 1 /\ answers[e][Len(answers[e])].kind # "ok"
         \/ LacksId(C9_FailedStep(e), responses[e])

C10_View(e) ==
  <<file[e], pc[e], headers[e], auth[e], responses[e], posts[e], answers[e], remote[e],
    exc[e], result[e]>>

C10_StepIsLocal ==
  \A e \in Execs, d \in Execs :
    (e # d /\ C10_View(e)' # C10_View(e)) => C10_View(d)' = C10_View(d)

C10_NoSharedState == []C10_OwnState /\ [][C10_StepIsLocal]_vars

C10_Witness ==
  /\ FailedInStep(1, 3)
  /\ pc[2] = "Success"
  /\ BaseUrlOf(1) # BaseUrlOf(2)
  /\ Len(posts[2]) = 10

(***************************************************************************)
(* The same file uploaded twice, the second upload at any time after or    *)
(* during the first, against an upstream that answers every POST with      *)
(* success and a fresh id.                                                 *)
(***************************************************************************)
InitReplay == \E f \in ValidFiles : InitWith([e \in Execs |-> f])

NextReplay ==
  \E e \in Execs :
    \/ Begin(e)
    \/ \E ans \in ConcOkAnswers(e) : Succeed(e, ans)

SpecReplay == InitReplay /\ [][NextReplay]_vars

(***************************************************************************)
(* C11: no idempotence.  Replaying a document against an always-succeeding *)
(* upstream performs all ten POSTs again: an execution that has completed  *)
(* has issued its own ten POSTs whatever the other has done, two completed *)
(* executions have issued twenty, and the upstream holds every request     *)
(* twice over (same payload, and same url where no id is threaded).        *)
(***************************************************************************)
C11_ReplayRepeatsAllPosts ==
  /\ \A e \in Execs :
       /\ pc[e] = "Success" => Len(posts[e]) = 10 /\ Len(remote[e]) = 10
       /\ pc[e] = "InFlight" => Len(posts[e]) = Len(answers[e]) + 1
  /\ (\A e \in Execs : pc[e] = "Success") =>
       /\ Len(posts[1]) + Len(posts[2]) = 20
       /\ Len(remote[1]) + Len(remote[2]) = 20
       /\ \A k \in 1..10 :
            /\ remote[1][k].json = remote[2][k].json
            /\ k \notin {4, 5, 8, 10} => remote[1][k] = remote[2][k]

C11_Witness ==
  /\ \A e \in Execs : pc[e] = "Success"
  /\ file[1] = file[2]
  /\ Len(posts[1]) + Len(posts[2]) = 20
  /\ remote[1][1] = remote[2][1]

(***************************************************************************)
(* C12: the url of every POST is the document's base_url followed by the   *)
(* step's endpoint path, character for character: base_url                 *)
(* "https://x.test" and /api/catalogs give "https://x.test/api/catalogs",  *)
(* and a base_url that ends in "/" gives a double slash.                   *)
(***************************************************************************)
C12_UrlIsConcatenation ==
  \A e \in Running :
    \A k \in 1..Len(posts[e]) :
      /\ posts[e][k].request.url = BaseUrlOf(e) \o posts[e][k].endpoint
      /\ posts[e][k].endpoint = ListPath(e, k)
      /\ (BaseUrlOf(e) = "https://x.test" /\ k = 1) =>
           posts[e][k].request.url = "https://x.test/api/catalogs"
      /\ (BaseUrlOf(e) = "https://y.test/" /\ k = 1) =>
           posts[e][k].request.url = "https://y.test//api/catalogs"
      /\ (BaseUrlOf(e) = "https://y.test/" /\ k = 4) =>
           posts[e][k].request.url
             = "https://y.test//api/catalogs/" \o Decoded(e, 1)["id"] \o "/offers"

C12_Witness ==
  \E e \in Running :
    /\ Len(posts[e]) >= 4
    /\ posts[e][1].request.url = "https://y.test//api/catalogs"
    /\ posts[e][4].request.url = "https://y.test//api/catalogs/id2/offers"

(***************************************************************************)
(* C13: the pipeline is a linear state machine.  From Start it goes to     *)
(* step 1 or to Failed; from step k it goes to step k+1 (to Success from   *)
(* step 10) only on a successful response, and a failed response takes it  *)
(* to Failed with no further POST; Success and Failed are terminal.  So    *)
(* the k-th POST of an execution is step k's, each step is POSTed at most  *)
(* once, and at most ten POSTs are issued.                                 *)
(***************************************************************************)
C13_Shape ==
  \A e \in Running :
    /\ pc[e] \in {"Start", "InFlight", "Success", "Failed"}
    /\ Len(posts[e]) <= 10
    /\ \A k \in 1..Len(posts[e]) : posts[e][k].data = file[e].doc[ListBlock[k]].v
    /\ \A j \in 1..Len(posts[e]), k \in 1..Len(posts[e]) :
         j # k => posts[e][j].data # posts[e][k].data
    /\ pc[e] = "InFlight" => Len(posts[e]) = Len(answers[e]) + 1
    /\ pc[e] = "Success" => AllTenSucceeded(e) /\ Len(posts[e]) = 10

C13_Transition ==
  \A e \in Execs :
    /\ pc[e] \in {"Success", "Failed", "Idle"} => C10_View(e)' = C10_View(e)
    /\ pc[e] = "Start" =>
         /\ pc'[e] \in {"Start", "InFlight", "Failed"}
         /\ pc'[e] = "InFlight" => Len(posts'[e]) = 1
         /\ pc'[e] = "Failed" => posts'[e] = <<>>
    /\ (pc[e] = "InFlight" /\ C10_View(e)' # C10_View(e)) =>
         /\ Len(answers'[e]) = Len(answers[e]) + 1
         /\ pc'[e] \in {"InFlight", "Success", "Failed"}
         /\ answers'[e][Len(answers'[e])].kind # "ok" =>
              pc'[e] = "Failed" /\ posts'[e] = posts[e]
         /\ pc'[e] = "InFlight" =>
              /\ answers'[e][Len(answers'[e])].kind = "ok"
              /\ Len(posts'[e]) = Len(posts[e]) + 1
              /\ SubSeq(posts'[e], 1, Len(posts[e])) = posts[e]
         /\ pc'[e] = "Success" => Len(answers'[e]) = 10 /\ posts'[e] = posts[e]
         /\ pc'[e] = "Failed" => posts'[e] = posts[e]

C13_LinearMachine == []C13_Shape /\ [][C13_Transition]_vars

C13_Witness ==
  \E e \in Running :
    /\ FailedInStep(e, 7)
    /\ Len(posts[e]) = 7

(***************************************************************************)
(* One upload as in Spec, with the handler running whenever it can and     *)
(* every POST that was issued being answered in the end.                   *)
(***************************************************************************)
Handle(e) == Reject(e) \/ Begin(e)

Respond(e) ==
  \/ \E ans \in OkAnswers(StepNo(e)) : Succeed(e, ans)
  \/ \E ans \in FailAnswers : Fail(e, ans)

SpecLive == Init /\ [][Next]_vars /\ \A e \in Execs : WF_vars(Handle(e)) /\ WF_vars(Respond(e))

(***************************************************************************)
(* C14: if every POST that is issued completes, every execution reaches    *)
(* Success or Failed; and an execution that has issued step 1 and stopped  *)
(* with fewer than ten POSTs has ended in Failed.                          *)
(***************************************************************************)
C14_Stopped(e) == pc[e] \notin {"Start", "InFlight"}

C14_EarlyStopIsFailure ==
  \A e \in Running :
    (C14_Stopped(e) /\ Len(posts[e]) >= 1 /\ Len(posts[e]) < 10) => pc[e] = "Failed"

C14_EndsInSuccessOrFailed ==
  /\ \A e \in Execs : (pc[e] \in {"Start", "InFlight"}) ~> (pc[e] \in {"Success", "Failed"})
  /\ []C14_EarlyStopIsFailure

C14_Witness ==
  \E e \in Running :
    /\ pc[e] = "Failed"
    /\ Len(posts[e]) = 6
    /\ exc[e].type = "UnboundLocalError"

(***************************************************************************)
(* C15: when the document has no auth_string, the headers passed to every  *)
(* POST hold Authorization with the literal value "Basic None": the header *)
(* is neither left out nor computed from username and password.            *)
(***************************************************************************)
C15_NoAuthString(f) ==
  \/ "auth_string" \notin DOMAIN f.doc["auth"].v
  \/ f.doc["auth"].v["auth_string"].t = "null"

C15_BasicNone ==
  \A e \in Running :
    \A k \in 1..Len(posts[e]) :
      C15_NoAuthString(file[e]) =>
        /\ "Authorization" \in DOMAIN posts[e][k].headers
        /\ posts[e][k].headers["Authorization"] = "Basic None"

C15_Witness ==
  \E e \in Running :
    /\ Len(posts[e]) = 10
    /\ C15_NoAuthString(file[e])
    /\ posts[e][10].headers["Authorization"] = "Basic None"

(***************************************************************************)
(* C16: a successful response without an id is not rejected where it       *)
(* arrives, only where the dependent step's path is built.  Without an id  *)
(* from step 1 the steps 2 and 3 are still POSTed and the execution fails  *)
(* with 400 before step 4 (three POSTs); without one from step 3 it fails  *)
(* before step 5 (four POSTs), from step 6 before step 8 (seven POSTs),    *)
(* from step 2 before step 10 (nine POSTs).  The dependent POST is never   *)
(* issued.                                                                 *)
(***************************************************************************)
\* Step j has been answered, with a body that has no id.
C16_NoId(e, j) == Len(answers[e]) >= j /\ "id" \notin DOMAIN Decoded(e, j)

C16_OkUpTo(e, n) == Len(answers[e]) >= n /\ \A k \in 1..n : answers[e][k].kind = "ok"

\* Step j's response has no id, step d reads it, and the responses in earlier, which
\* steps before d read, have theirs as far as they have arrived.
C16_Case(e, j, d, earlier) ==
  (C16_OkUpTo(e, j) /\ C16_NoId(e, j) /\ \A i \in earlier : ~C16_NoId(e, i)) =>
    /\ \A n \in j..(d - 2) :
         (Len(answers[e]) = n /\ C16_OkUpTo(e, n)) =>
           pc[e] = "InFlight" /\ Len(posts[e]) = n + 1
    /\ C16_OkUpTo(e, d - 1) =>
         /\ pc[e] = "Failed"
         /\ result[e].status_code = 400
         /\ Len(posts[e]) = d - 1
         /\ Len(answers[e]) = d - 1

C16_MissingIdFailsLate ==
  \A e \in Running :
    /\ C16_Case(e, 1, 4, {})
    /\ C16_Case(e, 3, 5, {1})
    /\ C16_Case(e, 6, 8, {1, 3})
    /\ C16_Case(e, 2, 10, {1, 3, 6})

C16_Witness ==
  \E e \in Running :
    /\ C16_OkUpTo(e, 9)
    /\ C16_NoId(e, 2)
    /\ pc[e] = "Failed"
    /\ Len(posts[e]) = 9
    /\ exc[e].type = "KeyError"

(***************************************************************************)
(* C17: one headers mapping and one credentials object are built before    *)
(* step 1 and passed unchanged to every POST of the execution; as the      *)
(* base url travels in that mapping, every request that goes out has a     *)
(* header named base_url with the document's base_url, besides             *)
(* Content-Type and Authorization.                                         *)
(***************************************************************************)
C17_OneHeadersMapping ==
  \A e \in Running :
    \A k \in 1..Len(posts[e]) :
      /\ posts[e][k].headers = headers[e]
      /\ posts[e][k].auth = auth[e]
      /\ posts[e][k].headers = posts[e][1].headers
      /\ posts[e][k].auth = posts[e][1].auth
      /\ DOMAIN posts[e][k].headers = {"Content-Type", "Authorization", "base_url"}
      /\ {"Content-Type", "Authorization", "base_url"} \subseteq DOMAIN posts[e][k].request.headers
      /\ posts[e][k].request.headers["base_url"] = file[e].doc["base_url"].v
      /\ posts[e][k].request.headers["Content-Type"] = "application/json"

C17_Witness ==
  \E e \in Running :
    /\ Len(posts[e]) = 10
    /\ posts[e][10].request.headers["base_url"] = "https://y.test/"
    /\ posts[e][10].headers = posts[e][1].headers

====
